---- MODULE Spec2Model ----
(***************************************************************************)
(* Model of the sign designer's four-point planar fit (src/src/App.jsx):   *)
(* orderQuad, solveAffine, decomposeAffineToTRS, applyFourPointFit, the    *)
(* point-picking overlay and the undo/redo history around them.            *)
(*                                                                         *)
(* JavaScript numbers are modelled as exact rationals <<n, d>> in lowest   *)
(* terms with d > 0.  <<0, 0>> stands for a non-finite value (NaN or an    *)
(* infinity), which the code can only produce by dividing by zero.         *)
(* Math.hypot is exact when the result is rational and rounded down to a   *)
(* multiple of 1/HypotPrec otherwise; Math.atan2 returns the direction of  *)
(* its argument as a primitive integer vector <<dy, dx>>, which is the     *)
(* angle modulo 2*pi.                                                      *)
(***************************************************************************)
EXTENDS Integers, Sequences, FiniteSets, TLC

(* ---------------------------- bounds ---------------------------------- *)

\* rounding step of an irrational Math.hypot result is 1/HypotPrec
HypotPrec == 1000

\* the hidden text group's local bounding box is TextCols x TextRows letter sizes
TextCols == 3

TextRows == 2

\* number of fits applied in one behaviour
MaxFits == 1

\* number of snapshots kept in past
MaxPast == 1

\* the number of presses of a Nudge Line arrow in a run
MaxNudges == 2

(* ------------------------- rational numbers --------------------------- *)

\* the element of a one-element set; The({e(v) : v \in {x}}) is e with x
\* evaluated once and bound to v
The(s) == CHOOSE v \in s : TRUE

Abs(n) == IF n < 0 THEN -n ELSE n

RECURSIVE GCD(_, _)
GCD(a, b) == IF b = 0 THEN a ELSE GCD(b, a % b)

NaN == <<0, 0>>

IsNaN(p) == p[2] = 0

Rat(n, d) ==
  IF d = 0 THEN NaN
  ELSE LET g == GCD(Abs(n), Abs(d))
           s == IF d < 0 THEN -1 ELSE 1
       IN  <<(s * n) \div g, (s * d) \div g>>

RInt(n) == <<n, 1>>

Zero == <<0, 1>>

One == <<1, 1>>

RNeg(p) == <<-p[1], p[2]>>

RAdd(p, q) ==
  IF IsNaN(p) \/ IsNaN(q) THEN NaN
  ELSE IF p[1] = 0 THEN q
  ELSE IF q[1] = 0 THEN p
  ELSE LET g == GCD(p[2], q[2])
       IN  Rat(p[1] * (q[2] \div g) + q[1] * (p[2] \div g), (p[2] \div g) * q[2])

RSub(p, q) == RAdd(p, RNeg(q))

RMul(p, q) ==
  IF IsNaN(p) \/ IsNaN(q) THEN NaN
  ELSE IF p[1] = 0 \/ q[1] = 0 THEN Zero
  ELSE LET g1 == GCD(Abs(p[1]), q[2])
           g2 == GCD(Abs(q[1]), p[2])
       IN  Rat((p[1] \div g1) * (q[1] \div g2), (p[2] \div g2) * (q[2] \div g1))

\* x / 0 is non-finite in JavaScript; it never throws
RDiv(p, q) ==
  IF IsNaN(p) \/ IsNaN(q) \/ q[1] = 0 THEN NaN
  ELSE RMul(p, Rat(q[2], q[1]))

RAbs(p) == <<Abs(p[1]), p[2]>>

\* every comparison with NaN is false
RLess(p, q) == ~IsNaN(p) /\ ~IsNaN(q) /\ p[1] * q[2] < q[1] * p[2]

RSign(p) == IF p[1] < 0 THEN -1 ELSE IF p[1] > 0 THEN 1 ELSE 0

\* JavaScript truthiness of a number: 0 and NaN are falsy
Truthy(p) == ~IsNaN(p) /\ p[1] # 0

\* Math.max(lo, v): NaN if v is NaN
RMax(lo, v) == IF IsNaN(v) THEN NaN ELSE IF RLess(v, lo) THEN lo ELSE v

RECURSIVE ISqrt(_)
ISqrt(n) ==
  IF n < 2 THEN n
  ELSE LET s == 2 * ISqrt(n \div 4)
           l == s + 1
       IN  IF l * l > n THEN s ELSE l

IsSquare(n) == ISqrt(n) * ISqrt(n) = n

\* floor(|p| * HypotPrec)
Fx(p) == (Abs(p[1]) * HypotPrec) \div p[2]

\* Math.hypot(p, q)
Hypot(p, q) ==
  IF IsNaN(p) \/ IsNaN(q) THEN NaN
  ELSE IF q[1] = 0 THEN RAbs(p)
  ELSE IF p[1] = 0 THEN RAbs(q)
  ELSE The({ IF IsSquare(v[1]) /\ IsSquare(v[2])
             THEN Rat(ISqrt(v[1]), ISqrt(v[2]))
             ELSE Rat(ISqrt(Fx(p) * Fx(p) + Fx(q) * Fx(q)), HypotPrec) :
             v \in {RAdd(RMul(p, p), RMul(q, q))} })

\* Math.atan2(y, x) as the primitive direction <<dy, dx>>; atan2(0, 0) = 0
Atan2(y, x) ==
  IF IsNaN(y) \/ IsNaN(x) THEN NaN
  ELSE IF y[1] = 0 /\ x[1] = 0 THEN <<0, 1>>
  ELSE LET g  == GCD(y[2], x[2])
           ny == y[1] * (x[2] \div g)
           nx == x[1] * (y[2] \div g)
           h  == GCD(Abs(ny), Abs(nx))
       IN  <<ny \div h, nx \div h>>

\* position of an angle in (-pi, pi], in eighths of a turn
Octant(t) ==
  IF t[1] < 0 THEN (IF t[2] < 0 THEN 0 ELSE IF t[2] = 0 THEN 1 ELSE 2)
  ELSE IF t[1] = 0 THEN (IF t[2] < 0 THEN 7 ELSE 3)
  ELSE (IF t[2] > 0 THEN 4 ELSE IF t[2] = 0 THEN 5 ELSE 6)

\* t1 < t2 for two values of Math.atan2
AngleLess(t1, t2) ==
  \/ Octant(t1) < Octant(t2)
  \/ /\ Octant(t1) = Octant(t2)
     /\ t1[2] * t2[1] - t1[1] * t2[2] > 0

Pt(x, y) == [x |-> x, y |-> y]

\* the array <<F(1), ..., F(n)>>, built element by element
RECURSIVE MkSeq(_, _)
MkSeq(F(_), n) == IF n = 0 THEN <<>> ELSE Append(MkSeq(F, n - 1), F(n))

(* ------------------------------ orderQuad ----------------------------- *)

RECURSIVE SumX(_)
SumX(pts) == IF pts = <<>> THEN Zero ELSE RAdd(SumX(SubSeq(pts, 1, Len(pts) - 1)), pts[Len(pts)].x)

RECURSIVE SumY(_)
SumY(pts) == IF pts = <<>> THEN Zero ELSE RAdd(SumY(SubSeq(pts, 1, Len(pts) - 1)), pts[Len(pts)].y)

\* pts.reduce((s, p) => s + p.x, 0) / pts.length, and the same for y
Centroid(pts) == Pt(RDiv(SumX(pts), RInt(Len(pts))), RDiv(SumY(pts), RInt(Len(pts))))

\* Math.atan2(p.y - cy, p.x - cx)
AngleAbout(p, c) == Atan2(RSub(p.y, c.y), RSub(p.x, c.x))

\* e goes behind every element of the sorted run whose angle is not larger
RECURSIVE InsertByAngle(_, _, _)
InsertByAngle(sorted, e, c) ==
  IF sorted = <<>> THEN <<e>>
  ELSE IF AngleLess(AngleAbout(e, c), AngleAbout(sorted[Len(sorted)], c))
       THEN Append(InsertByAngle(SubSeq(sorted, 1, Len(sorted) - 1), e, c), sorted[Len(sorted)])
       ELSE Append(sorted, e)

\* mutant: the click order is kept, nothing is sorted
SortByAngle_Unsorted(pts, c) == pts

\* pts.sort((a, b) => atan2(a) - atan2(b)): Array.prototype.sort is stable
RECURSIVE SortByAngle(_, _)
SortByAngle(pts, c) ==
  IF pts = <<>> THEN <<>>
  ELSE InsertByAngle(SortByAngle(SubSeq(pts, 1, Len(pts) - 1), c), pts[Len(pts)], c)

\* mutant: v <= best for v < best, the last of the points that tie wins
RECURSIVE StartIndex_LastOfTies(_, _)
StartIndex_LastOfTies(pts, n) ==
  IF n = 1 THEN 1
  ELSE LET s == StartIndex_LastOfTies(pts, n - 1)
       IN  IF RLess(RAdd(pts[s].x, pts[s].y), RAdd(pts[n].x, pts[n].y)) THEN s ELSE n

\* index of the first point with the strictly smallest x + y
RECURSIVE StartIndex(_, _)
StartIndex(pts, n) ==
  IF n = 1 THEN 1
  ELSE LET s == StartIndex(pts, n - 1)
       IN  IF RLess(RAdd(pts[n].x, pts[n].y), RAdd(pts[s].x, pts[s].y)) THEN n ELSE s

\* mutant: the second and the third point returned change places
orderQuad_SwapMiddle(points) ==
  The({ The({ <<pts[start], pts[((start + 1) % 4) + 1], pts[(start % 4) + 1],
                pts[((start + 2) % 4) + 1]>> :
              start \in {StartIndex(pts, Len(pts))} }) :
        pts \in {SortByAngle(points, Centroid(points))} })

orderQuad(points) ==
  The({ The({ <<pts[start], pts[(start % 4) + 1], pts[((start + 1) % 4) + 1],
                pts[((start + 2) % 4) + 1]>> :
              start \in {StartIndex(pts, Len(pts))} }) :
        pts \in {SortByAngle(points, Centroid(points))} })

(* ----------------------------- solveAffine ---------------------------- *)

\* the constant 1e-9 of inv is 1 / EpsDen
EpsDen == 1000000000

Eps == <<1, EpsDen>>

\* the 8x6 design matrix: two rows per correspondence
DesignA(from) ==
  MkSeq(LAMBDA r :
          LET p == from[(r + 1) \div 2]
          IN  IF r % 2 = 1 THEN <<p.x, p.y, One, Zero, Zero, Zero>>
                           ELSE <<Zero, Zero, Zero, p.x, p.y, One>>, 8)

\* mutant: X and Y of the targets change places
TargetB_Swapped(to) ==
  MkSeq(LAMBDA r : IF r % 2 = 1 THEN to[(r + 1) \div 2].y ELSE to[(r + 1) \div 2].x, 8)

\* the 8 targets X1, Y1, ..., X4, Y4
TargetB(to) ==
  MkSeq(LAMBDA r : IF r % 2 = 1 THEN to[(r + 1) \div 2].x ELSE to[(r + 1) \div 2].y, 8)

AT(m) == MkSeq(LAMBDA j : MkSeq(LAMBDA i : m[i][j], Len(m)), Len(m[1]))

RECURSIVE Dot(_, _, _, _)
Dot(r, n, j, k) ==
  IF k = 0 THEN Zero ELSE RAdd(Dot(r, n, j, k - 1), RMul(r[k], n[k][j]))

mul(m, n) ==
  MkSeq(LAMBDA i : MkSeq(LAMBDA j : Dot(m[i], n, j, Len(m[i])), Len(n[1])), Len(m))

\* m with the n x n identity appended to its rows
Augment(m) ==
  LET n == Len(m)
  IN  MkSeq(LAMBDA i : MkSeq(LAMBDA j :
        IF j <= n THEN m[i][j] ELSE IF j - n = i THEN One ELSE Zero, 2 * n), n)

\* partial pivoting: the first row from c on with the largest |a[i][c]|
RECURSIVE PivotRow(_, _, _)
PivotRow(a, c, i) ==
  IF i = c THEN c
  ELSE LET r == PivotRow(a, c, i - 1)
       IN  IF RLess(RAbs(a[r][c]), RAbs(a[i][c])) THEN i ELSE r

\* mutant: const d = a[c][c]
PivotDivisor_NoEps(v) == v

\* const d = a[c][c] || 1e-9
PivotDivisor(v) == IF Truthy(v) THEN v ELSE Eps

\* one column of the Gauss-Jordan elimination; st.a is the augmented
\* matrix, st.raw the pivots found and st.ds the divisors used so far
\* [a[c], a[r]] = [a[r], a[c]]
SwapRows(a, c, r) ==
  MkSeq(LAMBDA i : IF i = c THEN a[r] ELSE IF i = r THEN a[c] ELSE a[i], Len(a))

\* mutant: the pivot row is not divided by d
Eliminate_NoNormalise(sw, c, d) ==
  MkSeq(LAMBDA i :
          IF i = c THEN sw[c]
          ELSE MkSeq(LAMBDA j : RSub(sw[i][j], RMul(sw[i][c], sw[c][j])), Len(sw[c])),
        Len(sw))

\* a[c][j] /= d for every j, then a[i][j] -= f * a[c][j] for every i # c
Eliminate(sw, c, d) ==
  The({ MkSeq(LAMBDA i :
                IF i = c THEN row
                ELSE MkSeq(LAMBDA j : RSub(sw[i][j], RMul(sw[i][c], row[j])), Len(row)),
              Len(sw)) :
        row \in {MkSeq(LAMBDA j : RDiv(sw[c][j], d), Len(sw[c]))} })

GaussStep(st, c) ==
  The({ [a   |-> Eliminate(sw, c, PivotDivisor(sw[c][c])),
         raw |-> Append(st.raw, sw[c][c]),
         ds  |-> Append(st.ds, PivotDivisor(sw[c][c]))] :
        sw \in {SwapRows(st.a, c, PivotRow(st.a, c, Len(st.a)))} })

RECURSIVE GaussJordan(_, _)
GaussJordan(m, c) ==
  IF c = 0 THEN [a |-> Augment(m), raw |-> <<>>, ds |-> <<>>]
  ELSE GaussStep(GaussJordan(m, c - 1), c)

inv(m) ==
  The({ MkSeq(LAMBDA i : SubSeq(a[i], Len(m) + 1, 2 * Len(m)), Len(m)) :
        a \in {GaussJordan(m, Len(m)).a} })

\* the normal matrix (A^T A) that solveAffine inverts
NormalMatrix(from) == The({ mul(AT(A), A) : A \in {DesignA(from)} })

\* X = mul(ATAi, mul(ATm, B.map((v) => [v]))).map((r) => r[0])
SolveNormal(A, ATm, B) ==
  The({ [a |-> X[1][1], b |-> X[2][1], c |-> X[3][1],
         d |-> X[4][1], e |-> X[5][1], f |-> X[6][1]] :
        X \in {mul(inv(mul(ATm, A)), mul(ATm, MkSeq(LAMBDA i : <<B[i]>>, 8)))} })

solveAffine(from, to) ==
  The({ The({ SolveNormal(A, ATm, TargetB(to)) : ATm \in {AT(A)} }) :
        A \in {DesignA(from)} })

(* ------------------------- decomposeAffineToTRS ----------------------- *)

\* mutant: Math.atan2(a, d) for Math.atan2(d, a)
decomposeAffineToTRS_Atan2Swapped(aff) ==
  [position  |-> Pt(aff.c, aff.f),
   rotationZ |-> Atan2(aff.a, aff.d),
   scale     |-> Pt(Hypot(aff.a, aff.d), Hypot(aff.b, aff.e))]

\* mutant: the lengths of the rows (a, b) and (d, e) for those of the columns
decomposeAffineToTRS_ScaleByRows(aff) ==
  [position  |-> Pt(aff.c, aff.f),
   rotationZ |-> Atan2(aff.d, aff.a),
   scale     |-> Pt(Hypot(aff.a, aff.b), Hypot(aff.d, aff.e))]

\* mutant: the angle of the transformed Y basis vector, less a quarter turn
decomposeAffineToTRS_RotationFromY(aff) ==
  [position  |-> Pt(aff.c, aff.f),
   rotationZ |-> Atan2(RNeg(aff.b), aff.e),
   scale     |-> Pt(Hypot(aff.a, aff.d), Hypot(aff.b, aff.e))]

\* mutant: position (f, c) for (c, f)
decomposeAffineToTRS_PositionSwapped(aff) ==
  [position  |-> Pt(aff.f, aff.c),
   rotationZ |-> Atan2(aff.d, aff.a),
   scale     |-> Pt(Hypot(aff.a, aff.d), Hypot(aff.b, aff.e))]

decomposeAffineToTRS(aff) ==
  [position  |-> Pt(aff.c, aff.f),
   rotationZ |-> Atan2(aff.d, aff.a),
   scale     |-> Pt(Hypot(aff.a, aff.d), Hypot(aff.b, aff.e))]


(* ------------------------------ the App ------------------------------- *)

VARIABLES S, past, future, skipRef, timer, fits, fitFrom, solveArgs, solveRet,
          trsRet, worldCalls, argsAfter, before, undone, nudges

vars == <<S, past, future, skipRef, timer, fits, fitFrom, solveArgs, solveRet,
          trsRet, worldCalls, argsAfter, before, undone, nudges>>

\* history of the fit: the number of fits applied and the state the last
\* one was applied in (<<>> before the first)
fitVars == <<fits, fitFrom, nudges>>

\* the arguments and the return value of the last call of solveAffine, the
\* value decomposeAffineToTRS returned last, and the points last handed to
\* screenToWorld with the points it returned (<<>> before the first call);
\* argsAfter holds the arrays the last fit handed to orderQuad and to
\* solveAffine as they are when the calls have returned
solverVars == <<solveArgs, solveRet, trsRet, worldCalls, argsAfter>>

\* history of the edits: the state before the last user edit when neither
\* an undo nor a redo has followed it, and <<S, past, future>> as they were
\* before the last undo when neither an edit nor a redo has followed it
\* (<<>> otherwise)
editVars == <<before, undone>>

PlaneW == 120

MinSignScale == <<1, 20>>

MinWorldSize == <<1, 1000>>

\* window.innerWidth of the browser the App runs in
InnerWidth == 1024

\* null, the value of file and logoFile before an upload
Null == "null"

\* DEFAULT_TEXT, as the lengths of its lines
DefaultText == [i \in 1..TextRows |-> TextCols]

\* useState initial value; the text is held as the lengths of its lines
InitS ==
  [file               |-> Null,
   imgW               |-> 1600,
   imgH               |-> 900,
   signTX             |-> Zero,
   signTY             |-> Zero,
   signRZ             |-> <<0, 1>>,
   signScale          |-> One,
   text               |-> DefaultText,
   size               |-> 32,
   lineSpacing        |-> Rat(11, 10),
   racewayPadUnits    |-> RInt(6),
   perLinePadUnits    |-> <<>>,
   perLineHeightUnits |-> <<>>,
   perLineWidthScale  |-> <<>>,
   activeLineIndex    |-> 0,
   linePoses          |-> <<>>,
   logoFile           |-> Null,
   fitPoints          |-> <<>>,
   fitMode            |-> FALSE]

\* mutant: the fields that are not in the patch fall back to their initial
\* values
set_WithoutPrev(prev, patch) == patch @@ InitS

\* const set = (patch) => setS((prev) => ({ ...prev, ...patch }))
set(prev, patch) == patch @@ prev

\* mutant: the snapshot is the whole state
snapshotWithoutFiles_WithFiles(s) == s

\* const { file, logoFile, ...rest } = S; return deepClone(rest)
snapshotWithoutFiles(s) == [k \in DOMAIN s \ {"file", "logoFile"} |-> s[k]]

\* dispW = Math.max(640, Math.min(maxW, S.imgW))
RMin(p, q) == IF RLess(q, p) THEN q ELSE p

\* maxW = Math.min(1400, window.innerWidth * 0.75)
maxW == RMin(RInt(1400), Rat(InnerWidth * 3, 4))

dispW(s) == RMax(RInt(640), RMin(maxW, RInt(s.imgW)))

\* dispH = S.imgH * (dispW / S.imgW)
dispH(s) == RMul(RInt(s.imgH), RDiv(dispW(s), RInt(s.imgW)))

\* the length of the longest line of a text
RECURSIVE Longest(_)
Longest(text) ==
  IF text = <<>> THEN 0
  ELSE The({ IF Head(text) > rest THEN Head(text) ELSE rest : rest \in {Longest(Tail(text))} })

\* local bounding box of the hidden text group (textOnlyRef)
LocalTextBox(s) == [w |-> RInt(Longest(s.text) * s.size), h |-> RInt(Len(s.text) * s.size)]

\* new THREE.Box3().setFromObject(grp): the world-space box of the text
\* group, which sits inside the sign group (position, rotation signRZ,
\* scale signScale)
WorldBox(box, co, si, k) ==
  [w |-> RMax(MinWorldSize, RMul(k, RAdd(RMul(co, box.w), RMul(si, box.h)))),
   h |-> RMax(MinWorldSize, RMul(k, RAdd(RMul(si, box.w), RMul(co, box.h))))]

getTextOnlyWorldSize(s) ==
  The({ WorldBox(LocalTextBox(s), RAbs(RDiv(RInt(s.signRZ[2]), hyp)),
                 RAbs(RDiv(RInt(s.signRZ[1]), hyp)), RAbs(s.signScale)) :
        hyp \in {Hypot(RInt(s.signRZ[1]), RInt(s.signRZ[2]))} })

\* x || y for numbers
OrElse(x, y) == IF Truthy(x) THEN x ELSE y

\* mutant: the source rectangle has its first corner at the origin
Corners_FromOrigin(W, H) ==
  <<Pt(Zero, Zero), Pt(W, Zero), Pt(W, H), Pt(Zero, H)>>

\* the source rectangle src of applyFourPointFit
\* [(-W/2, -H/2), (+W/2, -H/2), (+W/2, +H/2), (-W/2, +H/2)]
Corners(W, H) ==
  The({ <<Pt(RNeg(hw), RNeg(hh)), Pt(hw, RNeg(hh)), Pt(hw, hh), Pt(RNeg(hw), hh)>> :
        hw \in {RDiv(W, RInt(2))}, hh \in {RDiv(H, RInt(2))} })

SourceRect(s) ==
  The({ Corners(RAdd(OrElse(sz.w, One), RMul(pad, RInt(2))),
                RAdd(OrElse(sz.h, One), RMul(pad, RInt(2)))) :
        sz \in {getTextOnlyWorldSize(s)}, pad \in {Rat(s.size, 2)} })

\* mutant: sy = (pt.y / dispH) * planeH - planeH / 2, y is not inverted
screenToWorld_YNotInverted(pt, s) ==
  The({ Pt(RSub(RMul(RDiv(pt.x, dispW(s)), planeW), RDiv(planeW, RInt(2))),
           RSub(RMul(RDiv(pt.y, dispH(s)), planeH), RDiv(planeH, RInt(2)))) :
        planeW \in {RInt(PlaneW)}, planeH \in {RMul(RInt(PlaneW), Rat(s.imgH, s.imgW))} })

screenToWorld(pt, s) ==
  The({ Pt(RSub(RMul(RDiv(pt.x, dispW(s)), planeW), RDiv(planeW, RInt(2))),
           RAdd(RMul(RNeg(RDiv(pt.y, dispH(s))), planeH), RDiv(planeH, RInt(2)))) :
        planeW \in {RInt(PlaneW)}, planeH \in {RMul(RInt(PlaneW), Rat(s.imgH, s.imgW))} })

\* tgt = [tl, tr, br, bl].map(screenToWorld)
TargetQuad(s) ==
  The({ MkSeq(LAMBDA i : screenToWorld(q[i], s), 4) : q \in {orderQuad(s.fitPoints)} })

\* the affine map solved by applyFourPointFit
FitAffine(s) ==
  The({ solveAffine(src, tgt) : src \in {SourceRect(s)}, tgt \in {TargetQuad(s)} })

\* mutant: the average is floored but a zero average is not replaced by 1
UniformScale_NoFallback(scale) ==
  RMax(MinSignScale, RDiv(RAdd(scale.x, scale.y), RInt(2)))

\* mutant: a zero average is replaced by 1 but the average is not floored
UniformScale_NoFloor(scale) ==
  OrElse(RDiv(RAdd(scale.x, scale.y), RInt(2)), One)

\* mutant: the sum of the two scales, not their average
UniformScale_NoHalving(scale) ==
  RMax(MinSignScale, OrElse(RAdd(scale.x, scale.y), One))

\* Math.max(0.05, (scale.x + scale.y) / 2 || 1)
UniformScale(scale) ==
  The({ RMax(MinSignScale, OrElse(avg, One)) :
        avg \in {RDiv(RAdd(scale.x, scale.y), RInt(2))} })

\* mutant: the patch carries the position only
PosePatch_PositionOnly(trs) ==
  [signTX    |-> trs.position.x,
   signTY    |-> trs.position.y,
   fitMode   |-> FALSE,
   fitPoints |-> <<>>]

\* the patch applyFourPointFit hands to set
PosePatch(trs) ==
  [signTX    |-> trs.position.x,
   signTY    |-> trs.position.y,
   signRZ    |-> trs.rotationZ,
   signScale |-> UniformScale(trs.scale),
   fitMode   |-> FALSE,
   fitPoints |-> <<>>]

FitPatch(s) ==
  The({ PosePatch(decomposeAffineToTRS(aff)) : aff \in {FitAffine(s)} })

\* the useHistory effect that runs after every setS: a skipped run only
\* resets skipRef, any other run re-arms the 60 ms snapshot timer
HistoryEffect(skip) ==
  /\ skipRef' = FALSE
  /\ timer' = ~skip

\* the dependency arrays of the two per-line sync effects:
\* [uiLines.length, S.racewayPadUnits, S.size] and
\* [uiLines.length, S.size, S.lineSpacing]
SyncDeps(s) == <<Len(s.text), s.racewayPadUnits, s.size, s.lineSpacing>>

\* { ...patch } for the patch (prev) => {...} that the sync effects hand to
\* set: a function has no own enumerable property, the callback is not
\* called and what it would return is never seen
SpreadOfCallback == <<>>

\* the two per-line sync effects: set((prev) => {...}), twice
SyncEffects(s) == set(set(s, SpreadOfCallback), SpreadOfCallback)

\* setS(next) by a user edit, followed by the effects: the history
\* effect, and the sync effects when one of their dependencies has changed
Edit(next) ==
  /\ S' = (IF SyncDeps(next) # SyncDeps(S) THEN SyncEffects(next) ELSE next)
  /\ HistoryEffect(skipRef)
  /\ before' = S
  /\ undone' = <<>>
  /\ UNCHANGED <<past, future>>

StartPicking ==
  /\ Edit(set(S, [fitMode |-> TRUE, fitPoints |-> <<>>]))
  /\ UNCHANGED <<fitVars, solverVars>>

\* mutant: the list of picked points is not cut to four
addPoint_Uncapped(p) ==
  /\ S.fitMode
  /\ Edit(set(S, [fitPoints |-> Append(S.fitPoints, p)]))
  /\ UNCHANGED <<fitVars, solverVars>>

\* FourPointFitOverlay.addPoint: the overlay exists only while fitMode
addPoint(p) ==
  /\ S.fitMode
  /\ Edit(set(S, [fitPoints |-> SubSeq(Append(S.fitPoints, p), 1,
                                        IF Len(S.fitPoints) < 4 THEN Len(S.fitPoints) + 1 ELSE 4)]))
  /\ UNCHANGED <<fitVars, solverVars>>

\* mutant: orderQuad sorts the array it is handed
orderQuadArrays_NoSlice(points) ==
  [points |-> SortByAngle(points, Centroid(points)), pts |-> SortByAngle(points, Centroid(points))]

\* the arrays of orderQuad when it returns: pts = points.slice() is a copy,
\* and pts.sort works on the copy
orderQuadArrays(points) ==
  [points |-> points, pts |-> SortByAngle(points, Centroid(points))]

\* the arrays of solveAffine when it returns: from and to are only read,
\* the rows are pushed to the new arrays A and B
solveAffineArrays(from, to) ==
  [from |-> from, to |-> to, A |-> DesignA(from), B |-> TargetB(to)]

\* the call of solveAffine(src, tgt) by applyFourPointFit and what it does
\* with the affine map aff returned
FitWith(src, tgt, aff) ==
  \E t \in {decomposeAffineToTRS(aff)} :
    /\ Edit(set(S, PosePatch(t)))
    /\ fits' = fits + 1
    /\ nudges' = nudges
    /\ fitFrom' = S
    /\ solveArgs' = <<src, tgt>>
    /\ solveRet' = aff
    /\ trsRet' = t
    /\ worldCalls' = <<orderQuad(S.fitPoints), tgt>>
    /\ argsAfter' = [points |-> orderQuadArrays(S.fitPoints).points,
                     from |-> solveAffineArrays(src, tgt).from,
                     to |-> solveAffineArrays(src, tgt).to]

\* mutant: without four points the picking is cleared
applyFourPointFit_ClearsPicking ==
  IF Len(S.fitPoints) # 4
  THEN /\ Edit(set(S, [fitMode |-> FALSE, fitPoints |-> <<>>]))
       /\ UNCHANGED <<fitVars, solverVars>>
  ELSE /\ fits < MaxFits
       /\ \E src \in {SourceRect(S)}, tgt \in {TargetQuad(S)} :
            \E aff \in {solveAffine(src, tgt)} : FitWith(src, tgt, aff)

applyFourPointFit ==
  IF Len(S.fitPoints) # 4
  THEN UNCHANGED vars
  ELSE /\ fits < MaxFits
       /\ \E src \in {SourceRect(S)}, tgt \in {TargetQuad(S)} :
            \E aff \in {solveAffine(src, tgt)} : FitWith(src, tgt, aff)

\* mutant: Clear leaves the picked points in the state
Clear_KeepsPoints ==
  /\ Edit(set(S, [fitMode |-> FALSE]))
  /\ UNCHANGED <<fitVars, solverVars>>

\* the Clear button of the sidebar
Clear ==
  /\ Edit(set(S, [fitMode |-> FALSE, fitPoints |-> <<>>]))
  /\ UNCHANGED <<fitVars, solverVars>>

\* the Cancel button of the overlay
Cancel ==
  /\ S.fitMode
  /\ Edit(set(S, [fitMode |-> FALSE, fitPoints |-> <<>>]))
  /\ UNCHANGED <<fitVars, solverVars>>

\* the 60 ms timeout of useHistory
TimerFire ==
  /\ timer
  /\ Len(past) < MaxPast
  /\ past' = Append(past, snapshotWithoutFiles(S))
  /\ future' = <<>>
  /\ timer' = FALSE
  /\ UNCHANGED <<S, skipRef, fitVars, solverVars, editVars>>

\* apply(snap): skipRef.current = true; setS(snap + files); then the effect,
\* which only resets skipRef.  When the snapshot changes a dependency of
\* the per-line sync effects, these run next and call set(prev => ...):
\* the patch is a function, so the new state has the content of the old
\* one, but it is a new state and the effect runs again, now unskipped
apply(snap) ==
  \E next \in {[file |-> S.file, logoFile |-> S.logoFile] @@ snap} :
    /\ S' = (IF SyncDeps(next) # SyncDeps(S) THEN SyncEffects(next) ELSE next)
    /\ HistoryEffect(SyncDeps(next) = SyncDeps(S))

undo ==
  /\ Len(past) > 0
  /\ past' = SubSeq(past, 1, Len(past) - 1)
  /\ future' = <<snapshotWithoutFiles(S)>> \o future
  /\ apply(past[Len(past)])
  /\ undone' = <<S, past, future>>
  /\ before' = <<>>
  /\ UNCHANGED <<fitVars, solverVars>>

redo ==
  /\ Len(future) > 0
  /\ future' = Tail(future)
  /\ past' = Append(past, snapshotWithoutFiles(S))
  /\ apply(Head(future))
  /\ undone' = <<>>
  /\ before' = <<>>
  /\ UNCHANGED <<fitVars, solverVars>>

\* display points the user clicks: the corners of an axis-aligned rectangle
ClickPoints ==
  {Pt(RInt(192), RInt(108)), Pt(RInt(576), RInt(108)),
   Pt(RInt(576), RInt(324)), Pt(RInt(192), RInt(324))}

\* the user clicks a corner not picked yet; once four are picked a further
\* click lands on any corner
Clickable ==
  IF Len(S.fitPoints) < 4
  THEN ClickPoints \ {S.fitPoints[i] : i \in 1..Len(S.fitPoints)}
  ELSE ClickPoints

Init ==
  /\ S = InitS
  /\ past = <<>>
  /\ future = <<>>
  /\ skipRef = FALSE
  /\ timer = TRUE
  /\ fits = 0
  /\ nudges = 0
  /\ fitFrom = <<>>
  /\ solveArgs = <<>>
  /\ solveRet = <<>>
  /\ trsRet = <<>>
  /\ worldCalls = <<>>
  /\ argsAfter = <<>>
  /\ before = <<>>
  /\ undone = <<>>

Next ==
  \/ StartPicking
  \/ \E p \in Clickable : addPoint(p)
  \/ applyFourPointFit
  \/ Clear
  \/ Cancel

Spec == Init /\ [][Next]_vars

(* ------------- picked quads for the geometric properties -------------- *)

\* display points on a coarse 3 x 3 grid and on a fine 2 x 2 grid
Grid == {Pt(RInt(x), RInt(y)) : x \in {192, 384, 576}, y \in {108, 216, 324}}

FineGrid == {Pt(RInt(x), RInt(y)) : x \in {384, 400}, y \in {216, 232}}

\* sign of the turn o -> a -> b
Turn(o, a, b) ==
  RSign(RSub(RMul(RSub(a.x, o.x), RSub(b.y, o.y)), RMul(RSub(a.y, o.y), RSub(b.x, o.x))))

\* q walks around a strictly convex quadrilateral, in either direction
ConvexTraversal(q) ==
  /\ Turn(q[1], q[2], q[3]) # 0
  /\ Turn(q[2], q[3], q[4]) = Turn(q[1], q[2], q[3])
  /\ Turn(q[3], q[4], q[1]) = Turn(q[1], q[2], q[3])
  /\ Turn(q[4], q[1], q[2]) = Turn(q[1], q[2], q[3])

GridQuads == {<<q[1], q[2], q[3], q[4]>> : q \in {f \in [1..4 -> Grid] : ConvexTraversal(f)}}

\* the click orders of a diamond, two corners of which share the least x + y
DiamondQuads ==
  {<<q[1], q[2], q[3], q[4]>> :
     q \in {f \in [1..4 -> {Pt(RInt(384), RInt(108)), Pt(RInt(492), RInt(216)),
                             Pt(RInt(384), RInt(324)), Pt(RInt(276), RInt(216))}] :
             ConvexTraversal(f)}}

FineQuads == {<<q[1], q[2], q[3], q[4]>> : q \in [1..4 -> FineGrid]}

\* rotation angles as <<cos, sin>>
Angles ==
  {<<One, Zero>>, <<Zero, One>>, <<RInt(-1), Zero>>, <<Zero, RInt(-1)>>}
  \cup {<<Rat(sc * 4, 5), Rat(ss * 3, 5)>> : sc \in {-1, 1}, ss \in {-1, 1}}
  \cup {<<Rat(sc * 3, 5), Rat(ss * 4, 5)>> : sc \in {-1, 1}, ss \in {-1, 1}}
  \cup {<<Rat(sc * 12, 13), Rat(ss * 5, 13)>> : sc \in {-1, 1}, ss \in {-1, 1}}
  \cup {<<Rat(sc * 5, 13), Rat(ss * 12, 13)>> : sc \in {-1, 1}, ss \in {-1, 1}}

\* p rotated by ang about the origin
Rot(ang, p) ==
  Pt(RSub(RMul(ang[1], p.x), RMul(ang[2], p.y)), RAdd(RMul(ang[2], p.x), RMul(ang[1], p.y)))

\* the display point that screenToWorld sends to the world point p
WorldToScreen(p, s) ==
  The({ Pt(RMul(RDiv(RAdd(p.x, RDiv(RInt(PlaneW), RInt(2))), RInt(PlaneW)), dispW(s)),
           RMul(RDiv(RSub(RDiv(planeH, RInt(2)), p.y), planeH), dispH(s))) :
        planeH \in {RMul(RInt(PlaneW), Rat(s.imgH, s.imgW))} })

\* clicks on the four corners of the source rectangle rotated by ang
RotatedClicks(ang, s) ==
  The({ MkSeq(LAMBDA i : WorldToScreen(Rot(ang, src[i]), s), 4) : src \in {SourceRect(s)} })

\* the picked points of s, in the building plane
WorldPicks(s) == {screenToWorld(s.fitPoints[i], s) : i \in 1..Len(s.fitPoints)}

\* the target quad handed to the fit is the source rectangle rotated by ang
IsRotatedSource(s, ang) ==
  /\ Len(s.fitPoints) = 4
  /\ The({ WorldPicks(s) = {Rot(ang, src[i]) : i \in 1..4} : src \in {SourceRect(s)} })

\* offsets (dx, dy) that keep the translated source rectangle inside the photo
Offsets ==
  {Pt(dx, dy) : dx \in {RInt(-10), Zero, Rat(5, 2), RInt(7)}, dy \in {RInt(-5), Zero, RInt(3)}}

\* p translated by off
Shift(off, p) == Pt(RAdd(p.x, off.x), RAdd(p.y, off.y))

\* clicks on the four corners of the source rectangle translated by off
TranslatedClicks(off, s) ==
  The({ MkSeq(LAMBDA i : WorldToScreen(Shift(off, src[i]), s), 4) : src \in {SourceRect(s)} })

\* the target quad handed to the fit is the source rectangle translated by off
IsTranslatedSource(s, off) ==
  /\ Len(s.fitPoints) = 4
  /\ The({ WorldPicks(s) = {Shift(off, src[i]) : i \in 1..4} : src \in {SourceRect(s)} })

\* scale factors that keep the scaled source rectangle inside the photo
ScaleFactors == {Zero, Rat(1, 40), Rat(1, 20), Rat(1, 4), Rat(1, 2), One, Rat(3, 2), RInt(2)}

\* p scaled by k about the origin
Scaled(k, p) == Pt(RMul(k, p.x), RMul(k, p.y))

\* clicks on the four corners of the source rectangle scaled by k
ScaledClicks(k, s) ==
  The({ MkSeq(LAMBDA i : WorldToScreen(Scaled(k, src[i]), s), 4) : src \in {SourceRect(s)} })

\* the target quad handed to the fit is the source rectangle scaled by k
IsScaledSource(s, k) ==
  /\ Len(s.fitPoints) = 4
  /\ The({ WorldPicks(s) = {Scaled(k, src[i]) : i \in 1..4} : src \in {SourceRect(s)} })

Picking(size, q) == [InitS EXCEPT !.size = size, !.fitMode = TRUE, !.fitPoints = q]

\* letter sizes whose rotated source rectangle lies inside the photo
GeomSizes == {4, 8}

InitGeom ==
  /\ \/ \E q \in GridQuads \cup DiamondQuads \cup FineQuads : S = Picking(InitS.size, q)
     \/ \E size \in GeomSizes, ang \in Angles :
          S = Picking(size, RotatedClicks(ang, Picking(size, <<>>)))
     \/ \E size \in GeomSizes, off \in Offsets :
          S = Picking(size, TranslatedClicks(off, Picking(size, <<>>)))
     \/ \E size \in GeomSizes, k \in ScaleFactors :
          S = Picking(size, ScaledClicks(k, Picking(size, <<>>)))
  /\ past = <<>>
  /\ future = <<>>
  /\ skipRef = FALSE
  /\ timer = TRUE
  /\ fits = 0
  /\ nudges = 0
  /\ fitFrom = <<>>
  /\ solveArgs = <<>>
  /\ solveRet = <<>>
  /\ trsRet = <<>>
  /\ worldCalls = <<>>
  /\ argsAfter = <<>>
  /\ before = <<>>
  /\ undone = <<>>

NextGeom == applyFourPointFit

SpecGeom == InitGeom /\ [][NextGeom]_vars

(* ------------------- the solver called on its own --------------------- *)

Origin == Pt(Zero, Zero)

\* source quads: rectangles centred at the origin, four points on an axis
\* and four points at the origin
SolveSources ==
  {Corners(RInt(w), RInt(h)) : w \in {2, 4}, h \in {2, 4}}
  \cup {<<Origin, Pt(One, Zero), Pt(RInt(2), Zero), Pt(RInt(3), Zero)>>,
        <<Origin, Pt(Zero, One), Pt(Zero, RInt(2)), Pt(Zero, RInt(3))>>,
        <<Origin, Pt(One, Zero), Pt(One, Zero), Origin>>,
        <<Origin, Origin, Origin, Origin>>}

\* target quads: every choice of four points among three, which covers
\* coincident and collinear quads, a trapezoid and two parallelograms
SolveTargets ==
  {<<q[1], q[2], q[3], q[4]>> : q \in [1..4 -> {Origin, Pt(One, Zero), Pt(Zero, One)}]}
  \cup {<<Origin, Pt(RInt(4), Zero), Pt(RInt(3), RInt(2)), Pt(One, RInt(2))>>,
        <<Origin, Pt(RInt(4), Zero), Pt(RInt(5), RInt(2)), Pt(One, RInt(2))>>,
        <<Pt(One, RInt(2)), Pt(RInt(5), Zero), Pt(RInt(4), RInt(-3)), Pt(Zero, RInt(-1))>>}

InitSolve ==
  /\ S = InitS
  /\ past = <<>>
  /\ future = <<>>
  /\ skipRef = FALSE
  /\ timer = TRUE
  /\ fits = 0
  /\ nudges = 0
  /\ fitFrom = <<>>
  /\ solveArgs \in SolveSources \X SolveTargets
  /\ solveRet = <<>>
  /\ trsRet = <<>>
  /\ worldCalls = <<>>
  /\ argsAfter = <<>>
  /\ before = <<>>
  /\ undone = <<>>

\* solveAffine(from, to) is called and returns
CallSolve ==
  /\ solveRet = <<>>
  /\ solveRet' = solveAffine(solveArgs[1], solveArgs[2])
  /\ UNCHANGED <<S, past, future, skipRef, timer, fitVars, solveArgs, trsRet, worldCalls, argsAfter, editVars>>

NextSolve == CallSolve

SpecSolve == InitSolve /\ [][NextSolve]_vars

(* ---------------------- the fit and the history ----------------------- *)

\* the clicks of one picking session: the corners of the source rectangle
\* of the initial state, scaled by 1/4, rotated by atan(3/4) and moved to
\* (10, 5)
HistQuad ==
  The({ MkSeq(LAMBDA i :
                The({ WorldToScreen(Pt(RAdd(RInt(10), RDiv(p.x, RInt(4))),
                                       RAdd(RInt(5), RDiv(p.y, RInt(4)))), InitS) :
                      p \in {Rot(<<Rat(4, 5), Rat(3, 5)>>, src[i])} }), 4) :
        src \in {SourceRect(InitS)} })

\* the user clicks the next corner of HistQuad
NextClick == IF Len(S.fitPoints) < 4 THEN {HistQuad[Len(S.fitPoints) + 1]} ELSE {}

NextHist ==
  \/ StartPicking
  \/ \E p \in NextClick : addPoint(p)
  \/ applyFourPointFit
  \/ TimerFire
  \/ undo
  \/ redo

SpecHist == Init /\ [][NextHist]_vars

\* a picking session with every button that writes fitMode or fitPoints,
\* and the history
NextPick ==
  \/ StartPicking
  \/ \E p \in NextClick : addPoint(p)
  \/ applyFourPointFit
  \/ Clear
  \/ Cancel
  \/ TimerFire
  \/ undo
  \/ redo

SpecPick == Init /\ [][NextPick]_vars

(* ---------------- the decomposition called on its own ----------------- *)

\* images (a, d) of the X basis vector and (b, e) of the Y basis vector,
\* and translations (c, f)
ImagesOfX ==
  {<<One, Zero>>, <<Zero, One>>, <<RInt(-1), Zero>>, <<Rat(3, 5), Rat(4, 5)>>,
   <<One, One>>, <<Rat(-1, 2), Rat(-1, 3)>>, <<Zero, Zero>>}

ImagesOfY ==
  {<<Zero, One>>, <<RInt(3), RInt(4)>>, <<RInt(4), RInt(3)>>, <<RInt(-3), RInt(4)>>,
   <<RInt(5), Zero>>, <<Zero, RInt(-5)>>, <<One, One>>, <<Rat(-4, 5), Rat(3, 5)>>,
   <<Zero, Zero>>}

Translations == {<<Zero, Zero>>, <<RInt(10), RInt(-5)>>}

AffineParams ==
  {[a |-> ix[1], b |-> iy[1], c |-> t[1], d |-> ix[2], e |-> iy[2], f |-> t[2]] :
     ix \in ImagesOfX, iy \in ImagesOfY, t \in Translations}

InitDecomp ==
  /\ S = InitS
  /\ past = <<>>
  /\ future = <<>>
  /\ skipRef = FALSE
  /\ timer = TRUE
  /\ fits = 0
  /\ nudges = 0
  /\ fitFrom = <<>>
  /\ solveArgs = <<>>
  /\ solveRet \in AffineParams
  /\ trsRet = <<>>
  /\ worldCalls = <<>>
  /\ argsAfter = <<>>
  /\ before = <<>>
  /\ undone = <<>>

\* decomposeAffineToTRS(aff) is called and returns
CallDecompose ==
  /\ trsRet = <<>>
  /\ trsRet' = decomposeAffineToTRS(solveRet)
  /\ UNCHANGED <<S, past, future, skipRef, timer, fitVars, solveArgs, solveRet, worldCalls,
               argsAfter, editVars>>

NextDecomp == CallDecompose

SpecDecomp == InitDecomp /\ [][NextDecomp]_vars

(* ----------------- screenToWorld called on its own -------------------- *)

\* naturalWidth and naturalHeight of the photo: wider than the window,
\* between 640 and the window, narrower than 640, and the initial size
ImageSizes == {<<1600, 900>>, <<3000, 1000>>, <<700, 525>>, <<400, 400>>}

WithImage(wh) == [InitS EXCEPT !.imgW = wh[1], !.imgH = wh[2]]

\* display points: corners, edge midpoints, the centre and inner points
DisplayPoints(s) ==
  {Pt(RMul(kx, dispW(s)), RMul(ky, dispH(s))) :
     kx \in {Zero, Rat(1, 4), Rat(1, 2), One}, ky \in {Zero, Rat(1, 3), Rat(1, 2), One}}

InitScreen ==
  /\ \E wh \in ImageSizes :
       \E p \in DisplayPoints(WithImage(wh)) :
         S = [WithImage(wh) EXCEPT !.fitMode = TRUE, !.fitPoints = <<p>>]
  /\ past = <<>>
  /\ future = <<>>
  /\ skipRef = FALSE
  /\ timer = TRUE
  /\ fits = 0
  /\ nudges = 0
  /\ fitFrom = <<>>
  /\ solveArgs = <<>>
  /\ solveRet = <<>>
  /\ trsRet = <<>>
  /\ worldCalls = <<>>
  /\ argsAfter = <<>>
  /\ before = <<>>
  /\ undone = <<>>

\* screenToWorld(pt) is called for the picked point and returns
CallScreenToWorld ==
  /\ worldCalls = <<>>
  /\ worldCalls' = <<S.fitPoints, MkSeq(LAMBDA i : screenToWorld(S.fitPoints[i], S), Len(S.fitPoints))>>
  /\ UNCHANGED <<S, past, future, skipRef, timer, fitVars, solveArgs, solveRet, trsRet, argsAfter, editVars>>

NextScreen == CallScreenToWorld

SpecScreen == InitScreen /\ [][NextScreen]_vars

(* ------------------ slider edits, undo and redo ----------------------- *)

\* values of the Letter Size slider (4..120) and of the Sign X slider
\* (-60..60)
Sizes == {16, 32, 48}

SignXs == {Zero, RInt(5)}

\* the Letter Size slider: onChange fires when the value changes
setSize(n) ==
  /\ n # S.size
  /\ Edit(set(S, [size |-> n]))
  /\ UNCHANGED <<fitVars, solverVars>>

\* the Sign X slider
setSignTX(x) ==
  /\ x # S.signTX
  /\ Edit(set(S, [signTX |-> x]))
  /\ UNCHANGED <<fitVars, solverVars>>

NextUndo ==
  \/ \E n \in Sizes : setSize(n)
  \/ \E x \in SignXs : setSignTX(x)
  \/ TimerFire
  \/ undo
  \/ redo

SpecUndo == Init /\ [][NextUndo]_vars

(* ---------------- edits of the text and of its layout ----------------- *)

\* undefined, the value of a hole of an array
Undefined == <<>>

\* const arr = [...a]; arr[i] = v, for the 0-based index i: the array grows
\* to i + 1 entries, the entries in between are undefined
ArraySet(a, i, v) ==
  [k \in 1..(IF Len(a) > i THEN Len(a) ELSE i + 1) |->
     IF k = i + 1 THEN v ELSE IF k <= Len(a) THEN a[k] ELSE Undefined]

\* texts typed into the Sign Text box: one line, the default text, and the
\* default text with one more line
Texts == {<<TextCols>>, DefaultText, Append(DefaultText, TextCols + 1)}

\* values of the Line Spacing slider (0.7..2.0) and of a Line Width slider
\* (0.2..3)
LineSpacings == {Rat(11, 10), Rat(3, 2)}

WidthScales == {Rat(1, 2), RInt(2)}

\* the Sign Text box: set({ text: e.target.value || DEFAULT_TEXT })
setText(t) ==
  /\ t # S.text
  /\ Edit(set(S, [text |-> t]))
  /\ UNCHANGED <<fitVars, solverVars>>

\* the Line Spacing slider
setLineSpacing(v) ==
  /\ v # S.lineSpacing
  /\ Edit(set(S, [lineSpacing |-> v]))
  /\ UNCHANGED <<fitVars, solverVars>>

\* the width slider of line i (0-based), one slider per line of the text
setLineWidth(i, v) ==
  /\ i < Len(S.text)
  /\ (IF i < Len(S.perLineWidthScale) THEN S.perLineWidthScale[i + 1] ELSE Undefined) # v
  /\ Edit(set(S, [perLineWidthScale |-> ArraySet(S.perLineWidthScale, i, v)]))
  /\ UNCHANGED <<fitVars, solverVars>>

NextLines ==
  \/ \E t \in Texts : setText(t)
  \/ \E n \in Sizes : setSize(n)
  \/ \E v \in LineSpacings : setLineSpacing(v)
  \/ \E i \in 0..TextRows, v \in WidthScales : setLineWidth(i, v)

SpecLines == Init /\ [][NextLines]_vars

(* ----------------------------- line poses ----------------------------- *)

\* step = size * (lineSpacing || 1.1)
LineStep(s) == RMul(RInt(s.size), OrElse(s.lineSpacing, Rat(11, 10)))

\* defaultY = firstY - i * step with firstY = ((lines.length - 1) * step) / 2
DefaultY(s, i) ==
  RSub(RDiv(RMul(RInt(Len(s.text) - 1), LineStep(s)), RInt(2)), RMul(RInt(i), LineStep(s)))

\* a[i] ?? other
ArrayGet(a, i, other) == IF i < Len(a) /\ a[i + 1] # Undefined THEN a[i + 1] ELSE other

\* the pose line i is rendered with: linePoses?.[i] ?? { x: 0, y: defaultY, ... }
RenderPose(s, i) ==
  ArrayGet(s.linePoses, i, [x |-> Zero, y |-> DefaultY(s, i), rot |-> Zero, scale |-> One,
                            defaultY |-> DefaultY(s, i), baseline |-> LineStep(s)])

\* appliedY = pose._baseline === step ? pose.y
\*                                    : pose.y + (defaultY - (pose._defaultY ?? defaultY))
appliedY(s, i, pose) ==
  IF "baseline" \in DOMAIN pose /\ pose.baseline = LineStep(s)
  THEN pose.y
  ELSE RAdd(pose.y, RSub(DefaultY(s, i),
                         IF "defaultY" \in DOMAIN pose THEN pose.defaultY ELSE DefaultY(s, i)))

\* position: [pose.x || 0, appliedY, 0] of the group of line i
LinePosition(s, i) ==
  The({ Pt(OrElse(pose.x, Zero), appliedY(s, i, pose)) : pose \in {RenderPose(s, i)} })

\* the lettersBounds memo computed from the text box { w, h }
lettersBounds(box, size) ==
  The({ [minX |-> RAdd(RNeg(RDiv(localWH[1], RInt(2))), Rat(2, 5)),
         maxX |-> RSub(RDiv(localWH[1], RInt(2)), Rat(2, 5)),
         minY |-> RAdd(RNeg(RDiv(localWH[2], RInt(2))), Rat(2, 5)),
         maxY |-> RSub(RDiv(localWH[2], RInt(2)), Rat(2, 5))] :
        localWH \in {<<RAdd(box.w, RMul(RInt(2), Rat(size * 4, 5))),
                       RAdd(box.h, RMul(RInt(2), Rat(size * 12, 25)))>>} })

\* the values the memo can hold: it is computed during a render, when
\* textOnlyRef is either still null (getTextOnlyWorldSize returns
\* { w: 1, h: 1 }) or holds the text group, which is then measured
BoundsChoices(s) ==
  {lettersBounds([w |-> One, h |-> One], s.size), lettersBounds(getTextOnlyWorldSize(s), s.size)}

clampToBounds(pos, b) ==
  [pos EXCEPT !.x = RMin(b.maxX, RMax(b.minX, pos.x)),
              !.y = RMin(b.maxY, RMax(b.minY, pos.y))]

\* the steps of the Nudge Line pad: the default and one the user types
LineSteps == {Rat(1, 2), RInt(20)}

\* the five buttons of a NudgePad: onNudge(0, step), (-step, 0), (0, 0),
\* (step, 0), (0, -step)
Directions == {<<0, 1>>, <<-1, 0>>, <<0, 0>>, <<1, 0>>, <<0, -1>>}

\* the position the user drags a line to with the gizmo
DragTargets == {Pt(RInt(5), RInt(10))}

\* the Active Line select and a click on a line
setActiveLine(i) ==
  /\ i < Len(S.text)
  /\ i # S.activeLineIndex
  /\ Edit(set(S, [activeLineIndex |-> i]))
  /\ UNCHANGED <<fitVars, solverVars>>

\* onNudge(dx, dy) of the Nudge Line pad
nudgeLine(dx, dy) ==
  /\ nudges < MaxNudges
  /\ nudges' = nudges + 1
  /\ \E b \in BoundsChoices(S),
        p \in {ArrayGet(S.linePoses, S.activeLineIndex,
                         [x |-> Zero, y |-> Zero, rot |-> Zero, scale |-> One])} :
       \E np \in {clampToBounds([p EXCEPT !.x = RAdd(p.x, dx), !.y = RAdd(p.y, dy)], b)} :
         Edit(set(S, [linePoses |-> ArraySet(S.linePoses, S.activeLineIndex, np)]))
  /\ UNCHANGED <<fits, fitFrom, solverVars>>

\* TransformControls.onObjectChange of the active line, dragged to pos:
\* clampToBounds(g.position, boundsForLines); onPoseChange(i, g, defaultY)
dragLine(pos) ==
  /\ \E b \in BoundsChoices(S), old \in {RenderPose(S, S.activeLineIndex)} :
       \E g \in {clampToBounds(pos, b)} :
         /\ g # LinePosition(S, S.activeLineIndex)
         /\ Edit(set(S, [linePoses |->
                           ArraySet(S.linePoses, S.activeLineIndex,
                                    [x |-> g.x, y |-> g.y, rot |-> OrElse(old.rot, Zero),
                                     scale |-> OrElse(old.scale, One),
                                     defaultY |-> DefaultY(S, S.activeLineIndex),
                                     baseline |-> LineStep(S)])]))
  /\ UNCHANGED <<fitVars, solverVars>>

NextNudge ==
  \/ \E i \in 0..(TextRows - 1) : setActiveLine(i)
  \/ \E st \in LineSteps, d \in Directions : nudgeLine(RMul(st, RInt(d[1])), RMul(st, RInt(d[2])))
  \/ \E pos \in DragTargets : dragLine(pos)

SpecNudge == Init /\ [][NextNudge]_vars

(* --------------------------- uploaded files --------------------------- *)

\* the files the user chooses
Photos == {"wall.jpg", "shop.png"}

Logos == {"logo.svg"}

\* the Building Photo input: onChange fires when the chosen file changes
uploadFile(f) ==
  /\ f # S.file
  /\ Edit(set(S, [file |-> f]))
  /\ UNCHANGED <<fitVars, solverVars>>

\* the Logo input
uploadLogo(f) ==
  /\ f # S.logoFile
  /\ Edit(set(S, [logoFile |-> f]))
  /\ UNCHANGED <<fitVars, solverVars>>

\* the letter sizes, the texts and the photo of the edited design
FrameSizes == {32, 48}

FrameTexts == {DefaultText, <<TextCols>>}

FramePhotos == {"wall.jpg"}

\* a picking session in a design the user edits
NextFrame ==
  \/ \E n \in FrameSizes : setSize(n)
  \/ \E t \in FrameTexts : setText(t)
  \/ \E f \in FramePhotos : uploadFile(f)
  \/ \E f \in Logos : uploadLogo(f)
  \/ StartPicking
  \/ \E p \in NextClick : addPoint(p)
  \/ applyFourPointFit
  \/ Clear
  \/ Cancel

SpecFrame == Init /\ [][NextFrame]_vars

\* uploads and edits with the history
NextFiles ==
  \/ \E f \in Photos : uploadFile(f)
  \/ \E f \in Logos : uploadLogo(f)
  \/ \E n \in FrameSizes : setSize(n)
  \/ TimerFire
  \/ undo
  \/ redo

SpecFiles == Init /\ [][NextFiles]_vars

(* --------------------------- the properties --------------------------- *)

\* the four pose fields of a state or of a patch
Pose(r) == <<r.signTX, r.signTY, r.signRZ, r.signScale>>

\* a fit has been applied
Fitted == fitFrom # <<>>

\* the four points the last fit was applied to
Picked == fitFrom.fitPoints

\* the state of the last fit with q picked instead
Repicked(q) == [fitFrom EXCEPT !.fitPoints = q]

\* the affine map the last fit solved
LastAffine == solveRet

Rotate(q) == <<q[2], q[3], q[4], q[1]>>

Reverse(q) == <<q[4], q[3], q[2], q[1]>>

\* C1: applying the fit a second time to the same four points, with the
\* pose the first application stored, stores the same pose again
C1_Idempotent ==
  Fitted => Pose(FitPatch([S EXCEPT !.fitPoints = Picked, !.fitMode = TRUE])) = Pose(S)

\* C4: the four corners of a strictly convex quadrilateral give the same
\* ordered list, and the same fitted pose, when they are clicked one corner
\* later around the quadrilateral, in the opposite direction, or in the
\* order orderQuad returns
C4_OrderInvariance ==
  (Fitted /\ ConvexTraversal(Picked)) =>
    /\ The({ /\ orderQuad(Rotate(Picked)) = o
             /\ orderQuad(Reverse(Picked)) = o
             /\ orderQuad(o) = o :
             o \in {orderQuad(Picked)} })
    /\ Pose(FitPatch(Repicked(Rotate(Picked)))) = Pose(S)
    /\ Pose(FitPatch(Repicked(Reverse(Picked)))) = Pose(S)

C4_Witness ==
  /\ Fitted
  /\ ConvexTraversal(Picked)
  /\ orderQuad(Picked) # Picked
  /\ orderQuad(Picked) # Rotate(Picked)
  /\ orderQuad(Reverse(Picked)) = orderQuad(Picked)
  /\ Pose(FitPatch(Repicked(Reverse(Picked)))) = Pose(S)

\* the pose of the sign rotated by ang, unscaled, at the origin
RotatedPose(ang) == <<Zero, Zero, Atan2(ang[2], ang[1]), One>>

\* C5 as stated: for every angle, picking the source rectangle rotated by
\* the angle about the origin makes the fit store that angle, position
\* (0, 0) and scale 1
C5_PureRotationAnyAngle ==
  \A ang \in Angles :
    (Fitted /\ IsRotatedSource(fitFrom, ang)) => Pose(S) = RotatedPose(ang)

\* angles strictly between -45 and 45 degrees
SmallAngles == {ang \in Angles : RLess(RAbs(ang[2]), ang[1])}

\* C5 amended: for every angle strictly between -45 and 45 degrees, picking
\* the source rectangle rotated by the angle about the origin makes the fit
\* store that angle, position (0, 0) and scale 1
C5_PureRotationSmallAngle ==
  \A ang \in SmallAngles :
    (Fitted /\ IsRotatedSource(fitFrom, ang)) => Pose(S) = RotatedPose(ang)

C5_Witness ==
  /\ Fitted
  /\ IsRotatedSource(fitFrom, <<Rat(4, 5), Rat(3, 5)>>)
  /\ S.signRZ = <<3, 4>>

\* the picked points are the corners of an axis-aligned rectangle
AxisAlignedRect(q) ==
  /\ Len(q) = 4
  /\ \E a \in {q[i] : i \in 1..4}, b \in {q[i] : i \in 1..4} :
       /\ RLess(a.x, b.x)
       /\ RLess(a.y, b.y)
       /\ {q[i] : i \in 1..4} = {a, b, Pt(a.x, b.y), Pt(b.x, a.y)}

\* C6: source corner i and target point i are the same named corner, so the
\* affine map solved for an axis-aligned picked rectangle is a positive
\* scaling of both axes: a > 0, e > 0 and b = d = 0
C6_SameNamedCorners ==
  (Fitted /\ AxisAlignedRect(Picked)) =>
    The({ aff.a[1] > 0 /\ aff.e[1] > 0 /\ aff.b = Zero /\ aff.d = Zero :
          aff \in {LastAffine} })

\* (scale.x + scale.y) / 2 with scale.x = hypot(a, d), scale.y = hypot(b, e)
AverageScale(aff) == RDiv(RAdd(Hypot(aff.a, aff.d), Hypot(aff.b, aff.e)), RInt(2))

\* C7 as stated: the stored scale is max(0.05, average), which is 0.05 for
\* an average of 0
C7_ScaleIsFlooredAverage ==
  Fitted => S.signScale = RMax(MinSignScale, AverageScale(LastAffine))

\* C7 amended: the stored scale is max(0.05, average) when the average is
\* not 0, and 1 when the average is 0 (all four picked points coincide)
C7_ScaleIsFlooredAverageOrOne ==
  Fitted =>
    The({ S.signScale = (IF avg = Zero THEN One ELSE RMax(MinSignScale, avg)) :
          avg \in {AverageScale(LastAffine)} })

C7_Witness ==
  /\ Fitted
  /\ \A i \in 1..4 : Picked[i] = Pt(RInt(400), RInt(232))
  /\ AverageScale(LastAffine) = Zero
  /\ S.signScale = One

\* every picked point lies on the line through two of them
Collinear(q) == \A i \in 1..4, j \in 1..4, k \in 1..4 : Turn(q[i], q[j], q[k]) = 0

\* no component is NaN or infinite (pose[3] is a value of Math.atan2)
Finite(pose) == ~IsNaN(pose[1]) /\ ~IsNaN(pose[2]) /\ pose[3] # NaN /\ ~IsNaN(pose[4])

\* C8: for any four picked points, collinear and coincident ones included,
\* the fit stores a finite pose whose scale is at least 0.05, and leaves
\* the picking mode
C8_DegenerateInput ==
  Fitted =>
    /\ Finite(Pose(S))
    /\ ~RLess(S.signScale, MinSignScale)
    /\ ~S.fitMode
    /\ S.fitPoints = <<>>

C8_Witness ==
  /\ Fitted
  /\ Collinear(Picked)
  /\ Picked[1] # Picked[2]
  /\ S.signScale = MinSignScale

\* C10: when the picked quad is the source rectangle itself, the solved
\* pose is position (0, 0), rotation 0 and scale 1 on both axes
C10_IdentityFit ==
  (Fitted /\ IsRotatedSource(fitFrom, <<One, Zero>>)) =>
    /\ decomposeAffineToTRS(LastAffine) =
         [position |-> Pt(Zero, Zero), rotationZ |-> <<0, 1>>, scale |-> Pt(One, One)]
    /\ Pose(S) = <<Zero, Zero, <<0, 1>>, One>>

C10_Witness ==
  /\ Fitted
  /\ IsRotatedSource(fitFrom, <<One, Zero>>)
  /\ fitFrom.size = 8
  /\ Pose(S) = <<Zero, Zero, <<0, 1>>, One>>

\* the pose decomposeAffineToTRS returned to the last fit
LastTRS == trsRet

\* C11: when the picked quad is the source rectangle translated by
\* (dx, dy), the solved pose is position (dx, dy), rotation 0 and scale 1
\* on both axes, and the stored pose is (dx, dy), 0, 1
C11_PureTranslation ==
  \A off \in Offsets :
    (Fitted /\ IsTranslatedSource(fitFrom, off)) =>
      /\ LastTRS = [position |-> off, rotationZ |-> <<0, 1>>, scale |-> Pt(One, One)]
      /\ Pose(S) = <<off.x, off.y, <<0, 1>>, One>>

C11_Witness ==
  /\ Fitted
  /\ IsTranslatedSource(fitFrom, Pt(Rat(5, 2), RInt(-5)))
  /\ fitFrom.size = 8
  /\ Pose(S) = <<Rat(5, 2), RInt(-5), <<0, 1>>, One>>

\* the factors of which C12 speaks: those of the clicks and their negatives
AnyFactors == ScaleFactors \cup {RNeg(k) : k \in ScaleFactors}

\* the solved pose and the stored scale for a quad scaled by k
ScaledBy(k) ==
  /\ LastTRS.scale = Pt(k, k)
  /\ LastTRS.rotationZ = <<0, 1>>
  /\ S.signScale = k

\* C12 as stated: for every factor s, when the picked quad is the source
\* rectangle scaled by s about the origin, the solved scale is s on both
\* axes, the stored signScale is s and the rotation is 0
C12_UniformScaleAnyFactor ==
  \A k \in AnyFactors : (Fitted /\ IsScaledSource(fitFrom, k)) => ScaledBy(k)

\* C12 amended: the same for every factor s >= 0.05
C12_UniformScaleFromFloor ==
  \A k \in AnyFactors :
    (Fitted /\ IsScaledSource(fitFrom, k) /\ ~RLess(k, MinSignScale)) => ScaledBy(k)

C12_Witness ==
  /\ Fitted
  /\ IsScaledSource(fitFrom, Rat(3, 2))
  /\ fitFrom.size = 8
  /\ LastTRS.scale = Pt(Rat(3, 2), Rat(3, 2))
  /\ S.signScale = Rat(3, 2)

\* C13: the list of picked points never holds more than four points; a
\* click on the overlay while fewer than four are held appends the point
\* clicked at the end of the list, and a click while four are held leaves
\* the four points as they are
C13_PickerCappedAtFour ==
  /\ [](Len(S.fitPoints) <= 4)
  /\ [][\A p \in ClickPoints :
          addPoint(p) =>
            /\ Len(S.fitPoints) < 4 => S'.fitPoints = Append(S.fitPoints, p)
            /\ Len(S.fitPoints) = 4 => S'.fitPoints = S.fitPoints]_vars

\* the last edit was a click on the overlay while four points were held
C13_Witness ==
  /\ before # <<>>
  /\ before.fitMode
  /\ Len(before.fitPoints) = 4
  /\ S.fitMode
  /\ S.fitPoints = before.fitPoints
  /\ S.fitPoints[1] # S.fitPoints[2]

\* the last edit has settled: the 60 ms timeout has fired after it, and
\* neither an undo nor a redo has followed it
Settled == before # <<>> /\ ~timer

\* C14: an undo after an edit that has settled shows the state as it was
\* before the edit
C14_UndoRestoresPreEdit ==
  [][(Settled /\ undo) => S' = before]_vars

\* C15: while no edit has followed the last undo, a redo is possible and
\* brings back the state and the past and future stacks as they were before
\* that undo
C15_UndoRedoRoundTrip ==
  undone # <<>> =>
    ENABLED (redo /\ S' = undone[1] /\ past' = undone[2] /\ future' = undone[3])

\* C2: from a state whose list of picked points does not hold exactly four
\* points no step applies a fit or changes the pose, and Apply Fit leaves
\* the whole state, fitMode and fitPoints included, as it is
C2_ApplyNeedsFourPoints ==
  [][Len(S.fitPoints) # 4 =>
       /\ UNCHANGED fitVars
       /\ Pose(S') = Pose(S)
       /\ (applyFourPointFit => UNCHANGED <<S, past, future>>)]_vars

C2_Witness ==
  /\ S.fitMode
  /\ Len(S.fitPoints) = 3
  /\ Fitted
  /\ Pose(S) # Pose(InitS)

\* the pose the last fit had to store, computed field by field
FullPose ==
  The({ <<trs.position.x, trs.position.y, trs.rotationZ, UniformScale(trs.scale)>> :
        trs \in {decomposeAffineToTRS(LastAffine)} })

\* some fields of pose come from old and the others from new
Mixed(pose, old, new) ==
  /\ pose # old
  /\ pose # new
  /\ \A i \in 1..4 : pose[i] \in {old[i], new[i]}

\* the current state and the snapshots of the undo history
Snapshots ==
  {S} \cup {past[i] : i \in 1..Len(past)} \cup {future[i] : i \in 1..Len(future)}

\* C3: once a fit has been applied, neither the current state nor any
\* snapshot of the undo history carries some of the four fitted values
\* together with the old values of the others
C3_AtomicPose ==
  Fitted => \A x \in Snapshots : ~Mixed(Pose(x), Pose(fitFrom), FullPose)

C3_Witness ==
  /\ Fitted
  /\ \A i \in 1..4 : FullPose[i] # Pose(fitFrom)[i]
  /\ \E i \in 1..Len(future) : Pose(future[i]) = FullPose
  /\ Pose(S) = Pose(fitFrom)

\* x + y of a point
SumXY(p) == RAdd(p.x, p.y)

\* C17: the first point orderQuad returns has the least x + y of the four
\* picked points, and of the picked points with the least x + y none has a
\* smaller angle about the centroid
C17_StartsAtLeastSum ==
  Fitted =>
    The({ /\ \A i \in 1..4 : ~RLess(SumXY(Picked[i]), SumXY(first))
          /\ \A i \in 1..4 :
               SumXY(Picked[i]) = SumXY(first) =>
                 ~AngleLess(AngleAbout(Picked[i], Centroid(Picked)),
                            AngleAbout(first, Centroid(Picked))) :
          first \in {orderQuad(Picked)[1]} })

\* two corners of a diamond tie for the least x + y, the upper one is first
C17_Witness ==
  /\ Fitted
  /\ Picked \in DiamondQuads
  /\ Picked[1] # Pt(RInt(384), RInt(108))
  /\ SumXY(Pt(RInt(276), RInt(216))) = SumXY(Pt(RInt(384), RInt(108)))
  /\ orderQuad(Picked)[1] = Pt(RInt(384), RInt(108))

\* the angles of the points of q about the centroid c
AnglesOf(q, c) == MkSeq(LAMBDA i : AngleAbout(q[i], c), 4)

\* the places i of the cyclic list t where t[i + 1] is smaller than t[i]
Descents(t) == {i \in 1..4 : AngleLess(t[(i % 4) + 1], t[i])}

\* out holds every element of q exactly once
IsPermutation(out, q) ==
  \E f \in [1..4 -> 1..4] :
    /\ \A i \in 1..4, j \in 1..4 : f[i] = f[j] => i = j
    /\ \A i \in 1..4 : out[i] = q[f[i]]

\* C18: orderQuad returns the four picked points, each once, and read
\* cyclically their angles about the centroid ascend but for one step down,
\* from the largest angle to the smallest (no step down when the four
\* angles are equal)
C18_CyclicRotationOfSorted ==
  Fitted =>
    The({ /\ IsPermutation(out, Picked)
          /\ The({ /\ Cardinality(Descents(t)) <= 1
                   /\ (\E i \in 1..4 : t[i] # t[1]) => Cardinality(Descents(t)) = 1 :
                   t \in {AnglesOf(out, Centroid(Picked))} }) :
          out \in {orderQuad(Picked)} })

\* the wrap-around lies inside the list returned, not at its end
C18_Witness ==
  /\ Fitted
  /\ ConvexTraversal(Picked)
  /\ orderQuad(Picked) # Picked
  /\ Descents(AnglesOf(orderQuad(Picked), Centroid(Picked))) \in {{1}, {2}, {3}}

\* v * v
Sq(v) == RMul(v, v)

\* s is the length of (p, q), or a multiple of 1 / HypotPrec less than
\* 3 / HypotPrec below it when the length is not rational (|p| and |q| are
\* rounded down, and so is the root)
IsLength(s, p, q) ==
  /\ ~RLess(s, Zero)
  /\ ~RLess(RAdd(Sq(p), Sq(q)), Sq(s))
  /\ \/ Sq(s) = RAdd(Sq(p), Sq(q))
     \/ RLess(RAdd(Sq(p), Sq(q)), Sq(RAdd(s, Rat(3, HypotPrec))))

\* the angle t points along (x, y); the angle of (0, 0) is 0
IsDirection(t, y, x) ==
  IF x = Zero /\ y = Zero THEN t = <<0, 1>>
  ELSE /\ RMul(RInt(t[1]), x) = RMul(RInt(t[2]), y)
       /\ RSign(RAdd(RMul(RInt(t[1]), y), RMul(RInt(t[2]), x))) = 1

\* C19: the pose decomposeAffineToTRS returns for {a,b,c,d,e,f} is
\* position (c, f), scale.x = hypot(a, d), scale.y = hypot(b, e) and
\* rotationZ = atan2(d, a): the scales are the lengths of (a, d) and (b, e)
\* and the angle is the direction of (a, d)
C19_DecompositionFormulas ==
  LastTRS # <<>> =>
    The({ /\ LastTRS.position = Pt(aff.c, aff.f)
          /\ LastTRS.scale = Pt(Hypot(aff.a, aff.d), Hypot(aff.b, aff.e))
          /\ LastTRS.rotationZ = Atan2(aff.d, aff.a)
          /\ IsLength(LastTRS.scale.x, aff.a, aff.d)
          /\ IsLength(LastTRS.scale.y, aff.b, aff.e)
          /\ IsDirection(LastTRS.rotationZ, aff.d, aff.a) :
          aff \in {LastAffine} })

C19_Witness ==
  /\ LastAffine = [a |-> Rat(3, 5), b |-> RInt(-3), c |-> RInt(10),
                   d |-> Rat(4, 5), e |-> RInt(4), f |-> RInt(-5)]
  /\ LastTRS = [position |-> Pt(RInt(10), RInt(-5)), rotationZ |-> <<4, 3>>,
                scale |-> Pt(One, RInt(5))]

\* aff2 agrees with aff on a, c, d, f and on the length of (b, e)
SameButShear(aff, aff2) ==
  /\ aff2.a = aff.a
  /\ aff2.c = aff.c
  /\ aff2.d = aff.d
  /\ aff2.f = aff.f
  /\ Hypot(aff2.b, aff2.e) = Hypot(aff.b, aff.e)

\* C20: an affine map that agrees with the one decomposed on a, c, d, f and
\* on the length of (b, e) makes the fit store the same signTX, signTY,
\* signRZ and signScale, whatever the direction of its (b, e)
C20_ShearDropped ==
  LastTRS # <<>> =>
    \A aff2 \in AffineParams :
      SameButShear(LastAffine, aff2) =>
        Pose(PosePatch(decomposeAffineToTRS(aff2))) = Pose(PosePatch(LastTRS))

\* a skewed map and a mirrored one store the pose of the map decomposed
C20_Witness ==
  /\ LastTRS # <<>>
  /\ <<LastAffine.b, LastAffine.e>> = <<RInt(3), RInt(4)>>
  /\ <<LastAffine.a, LastAffine.d>> = <<Rat(3, 5), Rat(4, 5)>>
  /\ \E aff2 \in AffineParams :
       /\ SameButShear(LastAffine, aff2)
       /\ <<aff2.b, aff2.e>> = <<Zero, RInt(-5)>>
       /\ Pose(PosePatch(decomposeAffineToTRS(aff2))) = Pose(PosePatch(LastTRS))
  /\ Pose(PosePatch(LastTRS)) = <<LastAffine.c, LastAffine.f, <<4, 3>>, RInt(3)>>

\* the sum of F over the four correspondences
Sum4(F(_)) == RAdd(RAdd(RAdd(F(1), F(2)), F(3)), F(4))

\* the residuals a*x + b*y + c - X and d*x + e*y + f - Y of correspondence i
ResX(p, from, to, i) ==
  RSub(RAdd(RAdd(RMul(p.a, from[i].x), RMul(p.b, from[i].y)), p.c), to[i].x)

ResY(p, from, to, i) ==
  RSub(RAdd(RAdd(RMul(p.d, from[i].x), RMul(p.e, from[i].y)), p.f), to[i].y)

\* the gradient of the sum of squared residuals is zero at p: the residuals
\* are orthogonal to the columns x, y and 1 of the design matrix
Minimises(p, from, to) ==
  /\ Sum4(LAMBDA i : RMul(ResX(p, from, to, i), from[i].x)) = Zero
  /\ Sum4(LAMBDA i : RMul(ResX(p, from, to, i), from[i].y)) = Zero
  /\ Sum4(LAMBDA i : ResX(p, from, to, i)) = Zero
  /\ Sum4(LAMBDA i : RMul(ResY(p, from, to, i), from[i].x)) = Zero
  /\ Sum4(LAMBDA i : RMul(ResY(p, from, to, i), from[i].y)) = Zero
  /\ Sum4(LAMBDA i : ResY(p, from, to, i)) = Zero

\* the solution of the normal equations for a rectangle centred at the
\* origin, where the columns x, y and 1 are orthogonal to each other
ClosedForm(from, to) ==
  [a |-> RDiv(Sum4(LAMBDA i : RMul(from[i].x, to[i].x)), Sum4(LAMBDA i : RMul(from[i].x, from[i].x))),
   b |-> RDiv(Sum4(LAMBDA i : RMul(from[i].y, to[i].x)), Sum4(LAMBDA i : RMul(from[i].y, from[i].y))),
   c |-> RDiv(Sum4(LAMBDA i : to[i].x), RInt(4)),
   d |-> RDiv(Sum4(LAMBDA i : RMul(from[i].x, to[i].y)), Sum4(LAMBDA i : RMul(from[i].x, from[i].x))),
   e |-> RDiv(Sum4(LAMBDA i : RMul(from[i].y, to[i].y)), Sum4(LAMBDA i : RMul(from[i].y, from[i].y))),
   f |-> RDiv(Sum4(LAMBDA i : to[i].y), RInt(4))]

\* the corners of a rectangle centred at the origin, neither side 0
CentredRect(from) ==
  /\ from[3].x # Zero
  /\ from[3].y # Zero
  /\ from = Corners(RMul(RInt(2), from[3].x), RMul(RInt(2), from[3].y))

\* to is the image of a rectangle under an affine map, corner by corner
AffineImage(to) ==
  /\ RAdd(RSub(to[1].x, to[2].x), RSub(to[3].x, to[4].x)) = Zero
  /\ RAdd(RSub(to[1].y, to[2].y), RSub(to[3].y, to[4].y)) = Zero

\* C16: for the corners of a rectangle centred at the origin as sources,
\* solveAffine returns the parameters that minimise the sum of the squared
\* residuals, which are the closed-form solution of the normal equations,
\* and every residual is 0 when the targets are an affine image of the
\* sources
C16_LeastSquares ==
  (solveRet # <<>> /\ CentredRect(solveArgs[1])) =>
    /\ Minimises(solveRet, solveArgs[1], solveArgs[2])
    /\ solveRet = ClosedForm(solveArgs[1], solveArgs[2])
    /\ AffineImage(solveArgs[2]) =>
         \A i \in 1..4 : /\ ResX(solveRet, solveArgs[1], solveArgs[2], i) = Zero
                          /\ ResY(solveRet, solveArgs[1], solveArgs[2], i) = Zero

\* a trapezoid is fitted with residuals that are not 0
C16_Witness ==
  /\ solveRet # <<>>
  /\ solveArgs[1] = Corners(RInt(4), RInt(2))
  /\ ~AffineImage(solveArgs[2])
  /\ solveArgs[2][3] = Pt(RInt(3), RInt(2))
  /\ ResX(solveRet, solveArgs[1], solveArgs[2], 1) # Zero
  /\ Minimises(solveRet, solveArgs[1], solveArgs[2])

\* the arithmetic mean of the four picked points after screenToWorld
MeanOfPicks ==
  Pt(RDiv(SumX(MkSeq(LAMBDA i : screenToWorld(Picked[i], fitFrom), 4)), RInt(4)),
     RDiv(SumY(MkSeq(LAMBDA i : screenToWorld(Picked[i], fitFrom), 4)), RInt(4)))

\* C21: after a fit signTX and signTY are the arithmetic mean of the x and
\* of the y coordinates of the four picked points after screenToWorld,
\* whatever the width and the height of the source rectangle
C21_PositionIsCentroid ==
  Fitted => Pt(S.signTX, S.signTY) = MeanOfPicks

\* a quad that is no parallelogram, fitted with the largest source rectangle
C21_Witness ==
  /\ Fitted
  /\ fitFrom.size = InitS.size
  /\ ConvexTraversal(Picked)
  /\ ~AffineImage(Picked)
  /\ MeanOfPicks # Pt(Zero, Zero)
  /\ Pt(S.signTX, S.signTY) = MeanOfPicks

\* the height of the building plane, 120 * imgH / imgW
PlaneH(s) == RMul(RInt(PlaneW), Rat(s.imgH, s.imgW))

\* world units per display pixel, 120 / dispW
UnitsPerPixel(s) == RDiv(RInt(PlaneW), dispW(s))

\* w is the image of the display point p: both axes are scaled by
\* 120 / dispW, y is inverted, and the ends and the centre of the display
\* go to the ends and the centre of the plane
IsPlanePoint(w, p, s) ==
  /\ w.x = RAdd(RInt(-60), RMul(UnitsPerPixel(s), p.x))
  /\ w.y = RSub(RDiv(PlaneH(s), RInt(2)), RMul(UnitsPerPixel(s), p.y))
  /\ p.x = Zero => w.x = RInt(-60)
  /\ p.x = dispW(s) => w.x = RInt(60)
  /\ p.y = Zero => w.y = RDiv(PlaneH(s), RInt(2))
  /\ p.y = dispH(s) => w.y = RNeg(RDiv(PlaneH(s), RInt(2)))
  /\ (p.x = RDiv(dispW(s), RInt(2)) /\ p.y = RDiv(dispH(s), RInt(2))) => w = Pt(Zero, Zero)

\* C22: screenToWorld sends the display point (x, y) to
\* (-60 + x * 120 / dispW, planeH / 2 - y * 120 / dispW) with
\* planeH = 120 * imgH / imgW: display x in [0, dispW] goes linearly onto
\* [-60, 60], display y in [0, dispH] onto [planeH / 2, -planeH / 2], the
\* display centre to the origin
C22_ScreenToWorldAffine ==
  worldCalls # <<>> =>
    \A i \in 1..Len(worldCalls[1]) :
      IsPlanePoint(worldCalls[2][i], worldCalls[1][i], IF Fitted THEN fitFrom ELSE S)

\* the lower right corner of a photo shown at 700 x 525
C22_Witness ==
  /\ worldCalls # <<>>
  /\ <<S.imgW, S.imgH>> = <<700, 525>>
  /\ worldCalls[1] = <<Pt(RInt(700), RInt(525))>>
  /\ worldCalls[2] = <<Pt(RInt(60), RInt(-45))>>

\* C23: in a state reached by an edit of the text, the letter size or the
\* line spacing, when the sync effects have run, the four per-line arrays
\* have one entry for every line of the text
C23_PerLineArraysSized ==
  (before # <<>> /\ SyncDeps(before) # SyncDeps(S)) =>
    /\ Len(S.perLinePadUnits) = Len(S.text)
    /\ Len(S.perLineHeightUnits) = Len(S.text)
    /\ Len(S.perLineWidthScale) = Len(S.text)
    /\ Len(S.linePoses) = Len(S.text)

OnlyWhilePicking(s) == Len(s.fitPoints) > 0 => s.fitMode

FitFields == {"signTX", "signTY", "signRZ", "signScale", "fitMode", "fitPoints"}

PickFields == {"fitMode", "fitPoints"}

\* the state without the fields of w
Without(s, w) == [k \in DOMAIN s \ w |-> s[k]]

\* C26: Apply Fit changes only signTX, signTY, signRZ, signScale, fitMode
\* and fitPoints; Start Picking, Clear and Cancel change only fitMode and
\* fitPoints
C26_FitFrame ==
  [][/\ applyFourPointFit => Without(S', FitFields) = Without(S, FitFields)
     /\ (StartPicking \/ Clear \/ Cancel) => Without(S', PickFields) = Without(S, PickFields)]_vars

\* a fit applied to a design with another text, another letter size and
\* both files uploaded, which has moved the sign
C26_Witness ==
  /\ Fitted
  /\ fitFrom.size # InitS.size
  /\ fitFrom.text # InitS.text
  /\ fitFrom.file # Null
  /\ fitFrom.logoFile # Null
  /\ Pose(S) # Pose(fitFrom)
  /\ Without(S, FitFields) = Without(fitFrom, FitFields)

\* C27: a press of a Nudge Line arrow with step (dx, dy) moves the position
\* the active line is displayed at from (x, y) to (x + dx, y + dy), clamped
\* to the letters bounds
C27_NudgeMovesDisplayedLine ==
  [][\A st \in LineSteps, d \in Directions :
       nudgeLine(RMul(st, RInt(d[1])), RMul(st, RInt(d[2]))) =>
         \E b \in BoundsChoices(S), at \in {LinePosition(S, S.activeLineIndex)} :
           LinePosition(S', S.activeLineIndex) =
             clampToBounds(Pt(RAdd(at.x, RMul(st, RInt(d[1]))),
                              RAdd(at.y, RMul(st, RInt(d[2])))), b)]_vars

\* the uploaded files of a state
Files(s) == <<s.file, s.logoFile>>

\* a snapshot of the history holds neither file
HasNoFiles(snap) == DOMAIN snap \cap {"file", "logoFile"} = {}

\* C28: no snapshot of the history contains file or logoFile, undo and redo
\* leave both as they are, and only an upload changes them, so they hold
\* what the last upload has set
C28_HistoryKeepsFiles ==
  /\ [](/\ \A i \in 1..Len(past) : HasNoFiles(past[i])
        /\ \A i \in 1..Len(future) : HasNoFiles(future[i]))
  /\ [][/\ (undo \/ redo) => Files(S') = Files(S)
        /\ S'.file # S.file => \E f \in Photos : uploadFile(f)
        /\ S'.logoFile # S.logoFile => \E f \in Logos : uploadLogo(f)]_vars

\* undo has restored a design saved before the photo was uploaded, and the
\* photo is still there
C28_Witness ==
  /\ undone # <<>>
  /\ S.size # undone[1].size
  /\ undone[1].file \in Photos
  /\ S.file = undone[1].file
  /\ \E i \in 1..Len(future) : HasNoFiles(future[i])

\* a step of a handler that edits the design
IsEdit == before' = S

\* C29: an edit adds no entry but arms the 60 ms timer; the timer, when it
\* fires, adds one entry with the state of that moment, empties future and
\* is spent; after an undo or a redo no timer is armed, so the state they
\* install adds no entry
C29_HistoryDebounced ==
  [][/\ IsEdit => past' = past /\ future' = future /\ timer'
     /\ TimerFire => /\ past' = Append(past, snapshotWithoutFiles(S))
                     /\ future' = <<>>
                     /\ ~timer'
     /\ (undo \/ redo) => ~timer']_vars

\* the Gauss-Jordan run of the last call of solveAffine
LastGauss == GaussJordan(NormalMatrix(solveArgs[1]), 6)

\* C9: solveAffine returns six finite parameters for rectangular, collinear
\* and coincident sources and targets, every divisor of a row normalisation
\* is not zero, and a pivot that is zero is divided by 1e-9 instead
C9_SolverNeverDividesByZero ==
  solveRet # <<>> =>
    /\ DOMAIN solveRet = {"a", "b", "c", "d", "e", "f"}
    /\ \A k \in DOMAIN solveRet : ~IsNaN(solveRet[k])
    /\ The({ /\ Len(g.ds) = 6
             /\ \A c \in 1..6 :
                  /\ Truthy(g.ds[c])
                  /\ g.ds[c] = (IF g.raw[c] = Zero THEN Eps ELSE g.raw[c]) :
             g \in {LastGauss} })

C9_Witness ==
  /\ solveRet # <<>>
  /\ \E c \in 1..6 : LastGauss.raw[c] = Zero /\ LastGauss.ds[c] = Eps
  /\ \A k \in DOMAIN solveRet : ~IsNaN(solveRet[k])
  /\ solveArgs[2][1] # solveArgs[2][2]

====
